---- MODULE Spec2Model ----
(***************************************************************************)
(* Model of koturn/CppCPLib: the shortest-path solvers of Graph.hpp        *)
(* (BellmanFord, Dijkstra, WarshalFloyd) and UnionFind.hpp.                *)
(* C++ containers are 0-indexed: vectors and arrays are modelled as        *)
(* functions over 0..(size-1).                                             *)
(***************************************************************************)
EXTENDS Integers, Sequences, FiniteSets, TLC

\* ------------------------------------------------------------------------
\* Bounds of the model
\* ------------------------------------------------------------------------
\* largest number of elements a UnionFind is constructed with
MaxN == 4
\* vertex ids range over 0..MaxId
MaxId == 2
\* most insertion calls (addEdge / addDirectedEdge) made on the solvers
MaxCalls == 2
\* most relaxation passes of BellmanFord followed before the model stops watching
MaxPass == 4
\* most queue pops of Dijkstra followed before the model stops watching
MaxPops == 10
\* most shortestPath calls made on the WarshalFloyd instances
MaxSolves == 2
\* vertices a spanning-tree solver is constructed for, at most
MaxV == 3
\* addEdge calls made on the spanning-tree solvers, at most
MaxEdges == 3

\* static constexpr int kInf = 0x3f3f3f3f
kInf == 1061109567

\* edge costs offered to the insertion calls
Costs == {-1, 1, 2}
\* contents a cell past the end of a vector may be found to hold: below,
\* inside and at the top of the range of a distance
Garbage == {-kInf, 0, kInf}
\* edge costs the callers of the spanning-tree solvers use
STCosts == {1, 2}

VARIABLES
  bf,        \* the BellmanFord instance: m_graph, m_vertex
  dj,        \* the Dijkstra instance: m_graph, m_vertex
  wf,        \* a WarshalFloyd instance constructed smaller than MaxId + 1
  wfFull,    \* a WarshalFloyd instance constructed with MaxId + 1
  calls,     \* history: the insertion calls made so far
  pc,        \* where the caller is: idle, in BellmanFord's loop, after a return
  q,         \* the query in progress or just returned
  dists,     \* BellmanFord::shortestPath_ local: the cells of dists
  passes,    \* BellmanFord::shortestPath_: completed passes of the for (;;) loop
  ret,       \* the vector returned by the last shortestPath
  retFull,   \* the vector returned by the last shortestPath of wfFull
  wfCap,     \* history: the capacity wf was constructed with
  solves,    \* history: the number of WarshalFloyd shortestPath calls made
  m_par,     \* UnionFind::m_par
  m_rank,    \* UnionFind::m_rank
  uf_group,  \* history: the partition induced by the unite calls (least member of each class)
  uf_last,   \* history: the last UnionFind call, with the arguments of a unite
  prim,      \* the Prim instance: its adjacency lists
  kruskal,   \* the Kruskal instance: its adjacency lists
  st_ret     \* what the solve() of Prim and of Kruskal returned, once called

ufvars == <<m_par, m_rank, uf_group, uf_last>>

stvars == <<prim, kruskal, st_ret>>

\* ------------------------------------------------------------------------
\* UnionFind.hpp
\* ------------------------------------------------------------------------
Nodes(par) == DOMAIN par

\* std::iota(begin(m_par), end(m_par), 0) -- mutation: m_par(n) left value-initialised
UFIotaNoFill(n) == [i \in 0..(n - 1) |-> 0]

\* m_par after the constructor: m_par(n) then std::iota(..., 0)
UFIota(n) == [i \in 0..(n - 1) |-> i]

\* m_rank after the constructor: m_rank(n), value-initialised
UFRankInit(n) == [i \in 0..(n - 1) |-> 0]

\* find -- mutation: returns the parent without walking up to the root
FindOneHop(par, x) == [par |-> par, ret |-> par[x]]

\* find -- mutation: returns the root without rewriting any parent
RECURSIVE FindNoCompress(_, _)
FindNoCompress(par, x) ==
  IF par[x] = x
  THEN [par |-> par, ret |-> x]
  ELSE [par |-> par, ret |-> FindNoCompress(par, par[x]).ret]

\* find(x): m_par[x] == x ? x : (m_par[x] = find(m_par[x]))
\* the result is the array after the call and the returned value
RECURSIVE Find(_, _)
Find(par, x) ==
  IF par[x] = x
  THEN [par |-> par, ret |-> x]
  ELSE LET r == Find(par, par[x])
       IN  [par |-> [r.par EXCEPT ![x] = r.ret], ret |-> r.ret]

\* unite -- mutation: links the arguments themselves instead of their roots
UniteNoFind(par, rank, x0, y0) ==
  IF x0 = y0
  THEN [par |-> par, rank |-> rank]
  ELSE IF rank[x0] < rank[y0]
       THEN [par |-> [par EXCEPT ![x0] = y0], rank |-> rank]
       ELSE [par |-> [par EXCEPT ![y0] = x0],
             rank |-> IF rank[x0] = rank[y0]
                      THEN [rank EXCEPT ![x0] = rank[x0] + 1]
                      ELSE rank]

\* unite -- mutation: the surviving root's rank grows on every merge
UniteRankAlwaysGrows(par, rank, x0, y0) ==
  LET fx == Find(par, x0)
      fy == Find(fx.par, y0)
      x  == fx.ret
      y  == fy.ret
      p  == fy.par
  IN  IF x = y
      THEN [par |-> p, rank |-> rank]
      ELSE IF rank[x] < rank[y]
           THEN [par |-> [p EXCEPT ![x] = y], rank |-> [rank EXCEPT ![y] = rank[y] + 1]]
           ELSE [par |-> [p EXCEPT ![y] = x], rank |-> [rank EXCEPT ![x] = rank[x] + 1]]

\* unite -- mutation: without the early return for x == y
UniteNoEarlyReturn(par, rank, x0, y0) ==
  LET fx == Find(par, x0)
      fy == Find(fx.par, y0)
      x  == fx.ret
      y  == fy.ret
      p  == fy.par
  IN  IF rank[x] < rank[y]
      THEN [par |-> [p EXCEPT ![x] = y], rank |-> rank]
      ELSE [par |-> [p EXCEPT ![y] = x],
            rank |-> IF rank[x] = rank[y]
                     THEN [rank EXCEPT ![x] = rank[x] + 1]
                     ELSE rank]

\* unite -- mutation: the rank comparison reversed
UniteRankReversed(par, rank, x0, y0) ==
  LET fx == Find(par, x0)
      fy == Find(fx.par, y0)
      x  == fx.ret
      y  == fy.ret
      p  == fy.par
  IN  IF x = y
      THEN [par |-> p, rank |-> rank]
      ELSE IF rank[x] > rank[y]
           THEN [par |-> [p EXCEPT ![x] = y], rank |-> rank]
           ELSE [par |-> [p EXCEPT ![y] = x],
                 rank |-> IF rank[x] = rank[y]
                          THEN [rank EXCEPT ![x] = rank[x] + 1]
                          ELSE rank]

\* unite -- mutation: m_rank[x]++ outside the test for equal ranks
UniteRankGrowsInElse(par, rank, x0, y0) ==
  LET fx == Find(par, x0)
      fy == Find(fx.par, y0)
      x  == fx.ret
      y  == fy.ret
      p  == fy.par
  IN  IF x = y
      THEN [par |-> p, rank |-> rank]
      ELSE IF rank[x] < rank[y]
           THEN [par |-> [p EXCEPT ![x] = y], rank |-> rank]
           ELSE [par |-> [p EXCEPT ![y] = x],
                 rank |-> [rank EXCEPT ![x] = rank[x] + 1]]

\* unite(x, y)
Unite(par, rank, x0, y0) ==
  LET fx == Find(par, x0)
      fy == Find(fx.par, y0)
      x  == fx.ret
      y  == fy.ret
      p  == fy.par
  IN  IF x = y
      THEN [par |-> p, rank |-> rank]
      ELSE IF rank[x] < rank[y]
           THEN [par |-> [p EXCEPT ![x] = y], rank |-> rank]
           ELSE [par |-> [p EXCEPT ![y] = x],
                 rank |-> IF rank[x] = rank[y]
                          THEN [rank EXCEPT ![x] = rank[x] + 1]
                          ELSE rank]

\* isSame that would follow the parents of x only: find(x) == y
IsSameOneSided(par, x, y, xFirst) ==
  LET f == Find(par, x)
  IN  [par |-> f.par, ret |-> (f.ret = y)]

\* isSame(x, y): find(x) == find(y); the operands of == are evaluated in
\* either order, xFirst selects which
IsSame(par, x, y, xFirst) ==
  LET f1 == IF xFirst THEN Find(par, x) ELSE Find(par, y)
      f2 == IF xFirst THEN Find(f1.par, y) ELSE Find(f1.par, x)
  IN  [par |-> f2.par, ret |-> (f1.ret = f2.ret)]

\* history: merge the classes of x and y in the partition of the unite calls
MergeGroups(grp, x, y) ==
  LET a == grp[x]
      b == grp[y]
      m == IF a < b THEN a ELSE b
  IN  [i \in DOMAIN grp |-> IF grp[i] = a \/ grp[i] = b THEN m ELSE grp[i]]

NoCall == [op |-> "new", x |-> 0, y |-> 0]

\* UnionFind(n)
UFNew(n) ==
  /\ m_par = UFIota(n)
  /\ m_rank = UFRankInit(n)
  /\ uf_group = [i \in 0..(n - 1) |-> i]
  /\ uf_last = NoCall

UFFind(x) ==
  LET f == Find(m_par, x)
  IN  /\ m_par' = f.par
      /\ uf_last' = [op |-> "find", x |-> 0, y |-> 0]
      /\ UNCHANGED <<m_rank, uf_group>>

UFUnite(x, y) ==
  LET u == Unite(m_par, m_rank, x, y)
  IN  /\ m_par' = u.par
      /\ m_rank' = u.rank
      /\ uf_group' = MergeGroups(uf_group, x, y)
      /\ uf_last' = [op |-> "unite", x |-> x, y |-> y]

UFIsSame(x, y) ==
  \E xFirst \in BOOLEAN :
    LET s == IsSame(m_par, x, y, xFirst)
    IN  /\ m_par' = s.par
        /\ uf_last' = [op |-> "isSame", x |-> 0, y |-> 0]
        /\ UNCHANGED <<m_rank, uf_group>>

InitUF == \E n \in 1..MaxN : UFNew(n)

NextUF ==
  \/ \E x \in Nodes(m_par) : UFFind(x)
  \/ \E x \in Nodes(m_par), y \in Nodes(m_par) : UFUnite(x, y)
  \/ \E x \in Nodes(m_par), y \in Nodes(m_par) : UFIsSame(x, y)

gvars == <<bf, dj, wf, wfFull, wfCap, solves, calls, pc, q, dists, passes, ret, retFull>>

vars == <<ufvars, gvars, stvars>>

\* ------------------------------------------------------------------------
\* Graph.hpp: storage helpers
\* ------------------------------------------------------------------------
Ids == 0..MaxId

Max(a, b) == IF a > b THEN a ELSE b

Min(a, b) == IF a < b THEN a ELSE b

\* struct Edge
Edge(from, to, cost) == [from |-> from, to |-> to, cost |-> cost]

\* cell idx of a block of memory; a cell outside the block holds g
MemAt(mem, idx, g) == IF idx \in DOMAIN mem THEN mem[idx] ELSE g

\* operator[] of a returned vector
VecAt(vec, idx, g) == MemAt(vec, idx, g)

\* std::vector<U> dists(m_vertex.size()); std::fill(.., kInf): the cells
\* 0..size-1 belong to the vector, the cells from size on lie past its end
\* and hold g
NewDists(size, g) == [i \in Ids |-> IF i < size THEN kInf ELSE g]

\* the vector handed back to the caller: the cells that belong to it
AsVector(cells, size) == [i \in 0..(size - 1) |-> cells[i]]

\* ------------------------------------------------------------------------
\* BellmanFord
\* ------------------------------------------------------------------------
\* BellmanFord()
BFNew == [m_graph |-> <<>>, m_vertex |-> {}]

\* addDirectedEdge_ that would record only the tail of the edge as a vertex
BFAddDirectedEdgeTailOnly(b, from, to, cost) ==
  [m_graph  |-> Append(b.m_graph, Edge(from, to, cost)),
   m_vertex |-> b.m_vertex \cup {from}]

\* BellmanFord::addDirectedEdge_
BFAddDirectedEdge(b, from, to, cost) ==
  [m_graph  |-> Append(b.m_graph, Edge(from, to, cost)),
   m_vertex |-> b.m_vertex \cup {from, to}]

\* BellmanFord::addEdge_
BFAddEdge(b, from, to, cost) ==
  LET b1 == BFAddDirectedEdge(b, from, to, cost)
  IN  [b1 EXCEPT !.m_graph = Append(@, Edge(to, from, cost))]

\* the body of the inner for loop, from edge i on: relax every edge in order
RECURSIVE BFRelax(_, _, _, _)
BFRelax(graph, i, d, isUpdated) ==
  IF i > Len(graph)
  THEN [dists |-> d, isUpdated |-> isUpdated]
  ELSE LET e == graph[i]
       IN  IF d[e.from] /= kInf /\ d[e.to] > d[e.from] + e.cost
           THEN BFRelax(graph, i + 1, [d EXCEPT ![e.to] = d[e.from] + e.cost], TRUE)
           ELSE BFRelax(graph, i + 1, d, isUpdated)

\* every index shortestPath_(from) uses on dists lies inside the vector
InRange(vertex, from) ==
  \A v \in vertex \cup {from} : v < Cardinality(vertex)

\* ------------------------------------------------------------------------
\* Dijkstra
\* ------------------------------------------------------------------------
\* Dijkstra()
DjNew == [m_graph |-> <<>>, m_vertex |-> {}]

\* m_graph.resize(n): new slots hold empty edge lists
Resize(graph, n) ==
  [i \in 0..(n - 1) |-> IF i \in DOMAIN graph THEN graph[i] ELSE <<>>]

\* Dijkstra::addDirectedEdge_
DjAddDirectedEdge(d, from, to, cost) ==
  LET m  == Max(from, to)
      g1 == IF Cardinality(DOMAIN d.m_graph) <= m
            THEN Resize(d.m_graph, m + 1)
            ELSE d.m_graph
  IN  [m_graph  |-> [g1 EXCEPT ![from] = Append(@, Edge(from, to, cost))],
       m_vertex |-> d.m_vertex \cup {from, to}]

\* Dijkstra::addEdge_: m_graph[to].emplace_back(from, to, cost)
DjAddEdge(d, from, to, cost) ==
  LET d1 == DjAddDirectedEdge(d, from, to, cost)
  IN  [d1 EXCEPT !.m_graph[to] = Append(@, Edge(from, to, cost))]

\* std::pair<U, T> under std::greater: ordered by first, then second
PairLess(a, b) ==
  a.first < b.first \/ (a.first = b.first /\ a.second < b.second)

\* pQueue.top(): the position of a least pair
TopIndex(pQueue) ==
  CHOOSE i \in 1..Len(pQueue) :
    \A j \in 1..Len(pQueue) : ~PairLess(pQueue[j], pQueue[i])

\* pQueue.pop()
RemoveAt(pQueue, i) ==
  [j \in 1..(Len(pQueue) - 1) |-> IF j < i THEN pQueue[j] ELSE pQueue[j + 1]]

\* the relaxation that would also take a path of equal cost
RECURSIVE DjRelaxNonStrict(_, _, _, _, _)
DjRelaxNonStrict(adj, i, v, d, pQueue) ==
  IF i > Len(adj)
  THEN [dists |-> d, pQueue |-> pQueue]
  ELSE LET e == adj[i]
       IN  IF d[e.to] >= d[v] + e.cost
           THEN DjRelaxNonStrict(adj, i + 1, v, [d EXCEPT ![e.to] = d[v] + e.cost],
                        Append(pQueue, [first |-> d[v] + e.cost, second |-> e.to]))
           ELSE DjRelaxNonStrict(adj, i + 1, v, d, pQueue)

\* the for loop over m_graph[v], from edge i on
RECURSIVE DjRelax(_, _, _, _, _)
DjRelax(adj, i, v, d, pQueue) ==
  IF i > Len(adj)
  THEN [dists |-> d, pQueue |-> pQueue]
  ELSE LET e == adj[i]
       IN  IF d[e.to] > d[v] + e.cost
           THEN LET nd == d[v] + e.cost
                IN  DjRelax(adj, i + 1, v, [d EXCEPT ![e.to] = nd],
                            Append(pQueue, [first |-> nd, second |-> e.to]))
           ELSE DjRelax(adj, i + 1, v, d, pQueue)

\* m_graph[v]; past the end of m_graph (only the queried vertex can be) a
\* read that does not abort finds no edges
AdjAt(graph, v) == IF v \in DOMAIN graph THEN graph[v] ELSE <<>>

\* the while (!pQueue.empty()) loop; pops counts the iterations made
RECURSIVE DjLoop(_, _, _, _)
DjLoop(graph, d, pQueue, pops) ==
  IF Len(pQueue) = 0
  THEN [dists |-> d, pops |-> pops, done |-> TRUE]
  ELSE IF pops >= MaxPops
       THEN [dists |-> d, pops |-> pops, done |-> FALSE]
       ELSE LET t    == TopIndex(pQueue)
                p    == pQueue[t]
                rest == RemoveAt(pQueue, t)
                v    == p.second
            IN  IF d[v] < p.first
                THEN DjLoop(graph, d, rest, pops + 1)
                ELSE LET r == DjRelax(AdjAt(graph, v), 1, v, d, rest)
                     IN  DjLoop(graph, r.dists, r.pQueue, pops + 1)

\* Dijkstra::shortestPath_(from); g is what the cells past the end of dists hold
DjShortestPath(d, from, g) ==
  LET size == Cardinality(d.m_vertex)
      d0   == [NewDists(size, g) EXCEPT ![from] = 0]
      r    == DjLoop(d.m_graph, d0, <<[first |-> 0, second |-> from]>>, 0)
  IN  [ret |-> AsVector(r.dists, size), pops |-> r.pops, done |-> r.done]

\* ------------------------------------------------------------------------
\* WarshalFloyd
\* ------------------------------------------------------------------------
\* WarshalFloyd(std::size_t v)
WFNew(v) ==
  [m_nVertex |-> v,
   m_graph   |-> [idx \in 0..(v * v - 1) |->
                    IF idx \div v = idx % v THEN 0 ELSE kInf],
   m_vertex  |-> {}]

\* the block allocated when m_nVertex <= m: the old n x n block copied to
\* the top left, kInf in the new rows and columns, 0 on the diagonal
Grown(orig, n, m) ==
  [idx \in 0..(m * m - 1) |->
     LET i == idx \div m
         j == idx % m
     IN  IF i = j THEN 0
         ELSE IF i < n /\ j < n THEN orig[i * n + j]
         ELSE kInf]

\* WarshalFloyd::addDirectedEdge_
WFAddDirectedEdge(w, from, to, cost) ==
  LET m0 == Max(from, to)
      n  == w.m_nVertex
      g1 == IF n <= m0 THEN Grown(w.m_graph, n, m0 + 1) ELSE w.m_graph
  IN  [m_nVertex |-> n,
       m_graph   |-> [g1 EXCEPT ![from * n + to] = cost],
       m_vertex  |-> w.m_vertex \cup {from, to}]

\* WarshalFloyd::addEdge_
WFAddEdge(w, from, to, cost) ==
  LET w1 == WFAddDirectedEdge(w, from, to, cost)
  IN  [w1 EXCEPT !.m_graph[to * w1.m_nVertex + from] = cost]

\* the triple loop of shortestPath_, from iteration c of n*n*n on, in place
RECURSIVE WFLoop(_, _, _)
WFLoop(g, n, c) ==
  IF c >= n * n * n
  THEN g
  ELSE LET k == c \div (n * n)
           i == (c \div n) % n
           j == c % n
       IN  WFLoop([g EXCEPT ![i * n + j] = Min(g[i * n + j], g[i * n + k] + g[k * n + j])],
                  n, c + 1)

\* WarshalFloyd::shortestPath_(from); a cell outside the block holds gb
WFShortestPath(w, from, gb) ==
  LET n  == w.m_nVertex
      g1 == WFLoop(w.m_graph, n, 0)
  IN  [w   |-> [w EXCEPT !.m_graph = g1],
       ret |-> [j \in 0..(n - 1) |-> MemAt(g1, from * n + j, gb)]]

\* BellmanFord::shortestPath_, the for (;;) loop run from the cells d
RECURSIVE BFLoop(_, _, _)
BFLoop(graph, d, n) ==
  IF n >= MaxPass
  THEN [dists |-> d, passes |-> n, done |-> FALSE]
  ELSE LET r == BFRelax(graph, 1, d, FALSE)
       IN  IF r.isUpdated
           THEN BFLoop(graph, r.dists, n + 1)
           ELSE [dists |-> r.dists, passes |-> n + 1, done |-> TRUE]

\* BellmanFord::shortestPath_(from); g is what the cells past the end of dists hold
BFShortestPath(b, from, g) ==
  LET size == Cardinality(b.m_vertex)
      r    == BFLoop(b.m_graph, [NewDists(size, g) EXCEPT ![from] = 0], 0)
  IN  [ret |-> AsVector(r.dists, size), passes |-> r.passes, done |-> r.done]

\* ------------------------------------------------------------------------
\* SpanningTreeSolver: Prim and Kruskal.  Their source is not among the
\* files of the repository at hand; they are modelled from sections 3 and
\* 4.3 of the specification.  Kruskal runs on the UnionFind above.
\* ------------------------------------------------------------------------
\* a solver constructed for n vertices: the adjacency is pre-sized, every
\* list empty
STNewGraph(n) == [v \in 0..(n - 1) |-> <<>>]

\* addEdge(from, to, cost): recorded in from's adjacency list only
STAddEdgeTo(graph, from, to, cost) ==
  [graph EXCEPT ![from] = Append(@, Edge(from, to, cost))]

\* the marker in the from field of Prim's sentinel edge
kNoVertex == -1

\* the position of the cheapest edge of a non-empty list, the earliest
\* among equal costs
CheapestIndex(es) ==
  CHOOSE i \in 1..Len(es) :
    \A j \in 1..Len(es) : es[i].cost < es[j].cost \/ (es[i].cost = es[j].cost /\ i <= j)

\* the edges of es, in order, whose destination is not in visited
RECURSIVE ToUnvisited(_, _)
ToUnvisited(es, visited) ==
  IF es = <<>>
  THEN <<>>
  ELSE (IF Head(es).to \in visited THEN <<>> ELSE <<Head(es)>>)
         \o ToUnvisited(Tail(es), visited)

\* Prim's loop: pop the cheapest frontier edge until the frontier is empty
RECURSIVE PrimLoop(_, _, _, _, _)
PrimLoop(graph, frontier, visited, total, edges) ==
  IF frontier = <<>>
  THEN [total |-> total, edges |-> edges]
  ELSE LET i    == CheapestIndex(frontier)
           e    == frontier[i]
           rest == RemoveAt(frontier, i)
       IN  IF e.to \in visited
           THEN PrimLoop(graph, rest, visited, total, edges)
           ELSE LET seen == visited \cup {e.to}
                IN  PrimLoop(graph,
                             rest \o ToUnvisited(graph[e.to], seen),
                             seen,
                             total + e.cost,
                             IF e.from = kNoVertex THEN edges ELSE Append(edges, e))

\* Prim::solve() from the root, seeded with the sentinel edge
PrimSolve(graph, root) ==
  PrimLoop(graph, <<Edge(kNoVertex, root, 0)>>, {}, 0, <<>>)

\* every edge of every adjacency list, from vertex v on, in one pool
RECURSIVE Pool(_, _)
Pool(graph, v) ==
  IF v \notin DOMAIN graph THEN <<>> ELSE graph[v] \o Pool(graph, v + 1)

\* the pool sorted ascending by cost
RECURSIVE SortByCost(_)
SortByCost(es) ==
  IF es = <<>>
  THEN <<>>
  ELSE LET i == CheapestIndex(es)
       IN  <<es[i]>> \o SortByCost(RemoveAt(es, i))

\* Kruskal's scan of the sorted edges from position i on
RECURSIVE KruskalScan(_, _, _, _, _, _)
KruskalScan(es, i, par, rank, total, edges) ==
  IF i > Len(es)
  THEN [total |-> total, edges |-> edges]
  ELSE LET e == es[i]
           s == IsSame(par, e.from, e.to, TRUE)
       IN  IF s.ret
           THEN KruskalScan(es, i + 1, s.par, rank, total, edges)
           ELSE LET u == Unite(s.par, rank, e.from, e.to)
                IN  KruskalScan(es, i + 1, u.par, u.rank, total + e.cost, Append(edges, e))

\* Kruskal::solve()
KruskalSolve(graph) ==
  LET n == Cardinality(DOMAIN graph)
  IN  KruskalScan(SortByCost(Pool(graph, 0)), 1, UFIota(n), UFRankInit(n), 0, <<>>)

NoResult == [done |-> FALSE, total |-> 0, edges |-> <<>>]

\* the edges recorded so far
STCount(graph) == Len(Pool(graph, 0))

\* Prim(n) and Kruskal(n)
STNew(n) ==
  /\ prim = STNewGraph(n)
  /\ kruskal = STNewGraph(n)
  /\ st_ret = [prim |-> NoResult, kruskal |-> NoResult]

\* the caller gives the same edge to both solvers, before any solve
STAddEdge(from, to, cost) ==
  /\ ~st_ret.prim.done /\ ~st_ret.kruskal.done
  /\ STCount(prim) < MaxEdges
  /\ prim' = STAddEdgeTo(prim, from, to, cost)
  /\ kruskal' = STAddEdgeTo(kruskal, from, to, cost)
  /\ UNCHANGED st_ret

\* the caller calls Prim's solve() once
STPrimSolve ==
  /\ ~st_ret.prim.done
  /\ LET r == PrimSolve(prim, 0)
     IN  st_ret' = [st_ret EXCEPT !.prim = [done |-> TRUE, total |-> r.total, edges |-> r.edges]]
  /\ UNCHANGED <<prim, kruskal>>

\* the caller calls Kruskal's solve() once
STKruskalSolve ==
  /\ ~st_ret.kruskal.done
  /\ LET r == KruskalSolve(kruskal)
     IN  st_ret' = [st_ret EXCEPT !.kruskal = [done |-> TRUE, total |-> r.total, edges |-> r.edges]]
  /\ UNCHANGED <<prim, kruskal>>

\* ------------------------------------------------------------------------
\* The caller: insertions applied identically to every solver, one query
\* at a time
\* ------------------------------------------------------------------------
NoQuery == [solver |-> "none", from |-> 0]

NoDists == [i \in Ids |-> 0]

Idle ==
  /\ pc = "idle"
  /\ q = NoQuery
  /\ dists = NoDists
  /\ passes = 0
  /\ ret = <<>>
  /\ retFull = <<>>

\* the solvers right after construction
InitSolvers(cap) ==
  /\ bf = BFNew
  /\ dj = DjNew
  /\ wf = WFNew(cap)
  /\ wfFull = WFNew(MaxId + 1)
  /\ wfCap = cap
  /\ solves = 0
  /\ calls = <<>>
  /\ Idle

\* ShortestPathSolver::addDirectedEdge on every solver
AddDirectedEdge(from, to, cost) ==
  /\ pc = "idle"
  /\ Len(calls) < MaxCalls
  /\ bf' = BFAddDirectedEdge(bf, from, to, cost)
  /\ dj' = DjAddDirectedEdge(dj, from, to, cost)
  /\ wf' = WFAddDirectedEdge(wf, from, to, cost)
  /\ wfFull' = WFAddDirectedEdge(wfFull, from, to, cost)
  /\ calls' = Append(calls, [op |-> "addDirectedEdge", from |-> from, to |-> to, cost |-> cost])
  /\ UNCHANGED <<wfCap, solves, pc, q, dists, passes, ret, retFull>>

\* ShortestPathSolver::addEdge on every solver
AddEdge(from, to, cost) ==
  /\ pc = "idle"
  /\ Len(calls) < MaxCalls
  /\ bf' = BFAddEdge(bf, from, to, cost)
  /\ dj' = DjAddEdge(dj, from, to, cost)
  /\ wf' = WFAddEdge(wf, from, to, cost)
  /\ wfFull' = WFAddEdge(wfFull, from, to, cost)
  /\ calls' = Append(calls, [op |-> "addEdge", from |-> from, to |-> to, cost |-> cost])
  /\ UNCHANGED <<wfCap, solves, pc, q, dists, passes, ret, retFull>>

\* BellmanFord::shortestPath_(from) up to the for (;;) loop; every index
\* is inside dists
BFBegin(from) ==
  /\ pc = "idle"
  /\ from \in Ids
  /\ InRange(bf.m_vertex, from)
  /\ pc' = "bf"
  /\ q' = [solver |-> "bf", from |-> from]
  /\ dists' = [NewDists(Cardinality(bf.m_vertex), kInf) EXCEPT ![from] = 0]
  /\ passes' = 0
  /\ UNCHANGED <<bf, dj, wf, wfFull, wfCap, solves, calls, ret, retFull>>

\* the same when some vertex id is not below m_vertex.size(): the cells
\* past the end of dists are read and written with whatever they hold
BFBeginPastEnd(from) ==
  /\ pc = "idle"
  /\ from \in Ids
  /\ ~InRange(bf.m_vertex, from)
  /\ \E g \in Garbage :
       dists' = [NewDists(Cardinality(bf.m_vertex), g) EXCEPT ![from] = 0]
  /\ pc' = "bf"
  /\ q' = [solver |-> "bf", from |-> from]
  /\ passes' = 0
  /\ UNCHANGED <<bf, dj, wf, wfFull, wfCap, solves, calls, ret, retFull>>

\* a shortestPath that touches cells past the end of dists may also abort
PastEndAbort(from) ==
  /\ pc = "idle"
  /\ from \in Ids
  /\ ~InRange(bf.m_vertex, from)
  /\ pc' = "crash"
  /\ \E s \in {"bf", "dj"} : q' = [solver |-> s, from |-> from]
  /\ UNCHANGED <<bf, dj, wf, wfFull, wfCap, solves, calls, dists, passes, ret, retFull>>

\* one iteration of for (;;): the whole inner loop, then the isUpdated test
BFPass ==
  /\ pc = "bf"
  /\ passes < MaxPass
  /\ LET r == BFRelax(bf.m_graph, 1, dists, FALSE)
     IN  /\ dists' = r.dists
         /\ passes' = passes + 1
         /\ IF r.isUpdated
            THEN pc' = "bf" /\ ret' = ret
            ELSE pc' = "ret" /\ ret' = AsVector(r.dists, Cardinality(bf.m_vertex))
  /\ UNCHANGED <<bf, dj, wf, wfFull, wfCap, solves, calls, q, retFull>>

\* Dijkstra::shortestPath_(from); a queue that has not emptied after
\* MaxPops pops is left spinning
DjQuery(from) ==
  /\ pc = "idle"
  /\ from \in Ids
  /\ \E g \in (IF InRange(dj.m_vertex, from) THEN {kInf} ELSE Garbage) :
       LET r == DjShortestPath(dj, from, g)
       IN  IF r.done
           THEN pc' = "ret" /\ ret' = r.ret
           ELSE pc' = "spin" /\ ret' = ret
  /\ q' = [solver |-> "dj", from |-> from]
  /\ UNCHANGED <<bf, dj, wf, wfFull, wfCap, solves, calls, dists, passes, retFull>>

\* every cell shortestPath_(from) copies out of the block exists
RowInBlock(w, from) ==
  \A j \in 0..(w.m_nVertex - 1) : (from * w.m_nVertex + j) \in DOMAIN w.m_graph

\* WarshalFloyd::shortestPath_(from) on both WarshalFloyd instances
WFQuery(from) ==
  /\ pc = "idle"
  /\ solves < MaxSolves
  /\ from \in Ids
  /\ \E gb \in (IF RowInBlock(wf, from) THEN {kInf} ELSE Garbage) :
       LET r  == WFShortestPath(wf, from, gb)
           rf == WFShortestPath(wfFull, from, gb)
       IN  /\ wf' = r.w
           /\ ret' = r.ret
           /\ wfFull' = rf.w
           /\ retFull' = rf.ret
  /\ solves' = solves + 1
  /\ pc' = "ret"
  /\ q' = [solver |-> "wf", from |-> from]
  /\ UNCHANGED <<bf, dj, wfCap, calls, dists, passes>>

\* the caller takes the returned vector and goes on
Return ==
  /\ pc = "ret"
  /\ pc' = "idle"
  /\ q' = NoQuery
  /\ dists' = NoDists
  /\ passes' = 0
  /\ ret' = <<>>
  /\ retFull' = <<>>
  /\ UNCHANGED <<bf, dj, wf, wfFull, wfCap, solves, calls>>

Init ==
  /\ \E cap \in 1..MaxId : InitSolvers(cap)
  /\ UFNew(1)
  /\ STNew(1)

Next ==
  /\ UNCHANGED <<ufvars, stvars>>
  /\ \/ \E from \in Ids, to \in Ids, cost \in Costs : AddDirectedEdge(from, to, cost)
     \/ \E from \in Ids, to \in Ids, cost \in Costs : AddEdge(from, to, cost)
     \/ \E from \in Ids : BFBegin(from)
     \/ \E from \in Ids : BFBeginPastEnd(from)
     \/ \E from \in Ids : PastEndAbort(from)
     \/ BFPass
     \/ \E from \in Ids : DjQuery(from)
     \/ \E from \in Ids : WFQuery(from)
     \/ Return

Spec == Init /\ [][Next]_vars

InitU ==
  /\ InitUF
  /\ InitSolvers(1)
  /\ STNew(1)

NextU == NextUF /\ UNCHANGED <<gvars, stvars>>

SpecUF == InitU /\ [][NextU]_vars

InitST ==
  /\ \E n \in 1..MaxV : STNew(n)
  /\ InitSolvers(1)
  /\ UFNew(1)

NextST ==
  /\ UNCHANGED <<ufvars, gvars>>
  /\ \/ \E from \in DOMAIN prim, to \in DOMAIN prim, cost \in STCosts : STAddEdge(from, to, cost)
     \/ STPrimSolve
     \/ STKruskalSolve

SpecST == InitST /\ [][NextST]_vars

\* Kruskal alone
NextKruskal ==
  /\ UNCHANGED <<ufvars, gvars>>
  /\ \/ \E from \in DOMAIN prim, to \in DOMAIN prim, cost \in STCosts : STAddEdge(from, to, cost)
     \/ STKruskalSolve

SpecKruskal == InitST /\ [][NextKruskal]_vars

\* BellmanFord and Dijkstra alone, every edge inserted with the cost 1:
\* the callers that matter to how the vertex set and the result are sized
InitSize ==
  /\ InitSolvers(1)
  /\ UFNew(1)
  /\ STNew(1)

NextSize ==
  /\ UNCHANGED <<ufvars, stvars>>
  /\ \/ \E from \in Ids, to \in Ids : AddDirectedEdge(from, to, 1)
     \/ \E from \in Ids, to \in Ids : AddEdge(from, to, 1)
     \/ \E from \in Ids : BFBegin(from)
     \/ \E from \in Ids : BFBeginPastEnd(from)
     \/ \E from \in Ids : PastEndAbort(from)
     \/ BFPass
     \/ \E from \in Ids : DjQuery(from)
     \/ Return

SpecSize == InitSize /\ [][NextSize]_vars

\* the costs of the insertions Dijkstra is specified for
NonNegCosts == {0, 1}

\* Dijkstra alone, under insertions of non-negative cost
NextSettle ==
  /\ UNCHANGED <<ufvars, stvars>>
  /\ \/ \E from \in Ids, to \in Ids, cost \in NonNegCosts : AddDirectedEdge(from, to, cost)
     \/ \E from \in Ids, to \in Ids, cost \in NonNegCosts : AddEdge(from, to, cost)
     \/ \E from \in Ids : PastEndAbort(from)
     \/ \E from \in Ids : DjQuery(from)
     \/ Return

SpecSettle == InitSize /\ [][NextSettle]_vars

\* ------------------------------------------------------------------------
\* What the callers asked for, read off the history of insertion calls
\* ------------------------------------------------------------------------
\* the directed edges of call number i: addEdge asks for both directions
DirectedOf(c) ==
  IF c.op = "addEdge"
  THEN <<Edge(c.from, c.to, c.cost), Edge(c.to, c.from, c.cost)>>
  ELSE <<Edge(c.from, c.to, c.cost)>>

\* the directed edges asked for so far, in order
RECURSIVE RequestedSeq(_)
RequestedSeq(cs) ==
  IF cs = <<>> THEN <<>>
  ELSE RequestedSeq(SubSeq(cs, 1, Len(cs) - 1)) \o DirectedOf(cs[Len(cs)])

Requested == {RequestedSeq(calls)[i] : i \in 1..Len(RequestedSeq(calls))}

\* the vertex ids that appeared as an endpoint
Inserted == {e.from : e \in Requested} \cup {e.to : e \in Requested}

NonNegative == \A e \in Requested : e.cost >= 0

\* the ids are exactly 0..n-1
Dense(V) == V = 0..(Cardinality(V) - 1)

SetMin(S) == CHOOSE x \in S : \A y \in S : x <= y

\* least cost of a walk from s with at most k edges, to every vertex; kInf
\* where there is none
RECURSIVE WalkMin(_, _, _, _)
WalkMin(E, V, s, k) ==
  IF k = 0
  THEN [t \in V |-> IF t = s THEN 0 ELSE kInf]
  ELSE LET w == WalkMin(E, V, s, k - 1)
       IN  [t \in V |->
              SetMin({w[t]} \cup {w[e.from] + e.cost :
                                    e \in {x \in E : x.to = t /\ w[x.from] /= kInf}})]

\* the minimum total cost over all directed paths from s to t (a shortest
\* path has fewer than |V| edges), kInf when t is unreachable
TrueDist(s, t) ==
  WalkMin(Requested, Inserted, s, Cardinality(Inserted) - 1)[t]

\* a cycle of negative total cost can be reached from s
NegCycleReachable(s) ==
  LET n == Cardinality(Inserted)
  IN  \E t \in Inserted :
        WalkMin(Requested, Inserted, s, 2 * n)[t] < WalkMin(Requested, Inserted, s, n - 1)[t]

\* some insertion named an id at or above the capacity wf was built with
MustGrow == \E e \in Requested : Max(e.from, e.to) >= wfCap

\* the cost of the last edge asked for between from and to
LastCost(from, to) ==
  LET rs == RequestedSeq(calls)
      i  == CHOOSE k \in 1..Len(rs) :
              /\ rs[k].from = from /\ rs[k].to = to
              /\ \A l \in (k + 1)..Len(rs) : ~(rs[l].from = from /\ rs[l].to = to)
  IN  rs[i].cost

\* ------------------------------------------------------------------------
\* Claims about the shortest-path solvers
\* ------------------------------------------------------------------------
\* C1: after the same insertions with non-negative costs and ids exactly
\* 0..n-1, shortestPath(s)[t] is the same in BellmanFord, Dijkstra and
\* WarshalFloyd for all inserted s, t.
C1_SolversAgree ==
  (pc = "ret" /\ q.solver = "bf" /\ q.from \in Inserted /\ NonNegative /\ Dense(bf.m_vertex)) =>
    \A t \in bf.m_vertex :
      /\ ret[t] = DjShortestPath(dj, q.from, kInf).ret[t]
      /\ ret[t] = WFShortestPath(wfFull, q.from, kInf).ret[t]

\* C2: in every solver, addEdge(a, b, c) yields the same shortestPath(s)
\* for every source s as addDirectedEdge(a, b, c) followed by
\* addDirectedEdge(b, a, c).
C2_AddEdgeIsTwoDirected ==
  pc = "idle" =>
    \A a \in Ids, b \in Ids, c \in Costs, g \in Garbage :
      LET bU == BFAddEdge(bf, a, b, c)
          bD == BFAddDirectedEdge(BFAddDirectedEdge(bf, a, b, c), b, a, c)
          dU == DjAddEdge(dj, a, b, c)
          dD == DjAddDirectedEdge(DjAddDirectedEdge(dj, a, b, c), b, a, c)
          wU == WFAddEdge(wf, a, b, c)
          wD == WFAddDirectedEdge(WFAddDirectedEdge(wf, a, b, c), b, a, c)
          fU == WFAddEdge(wfFull, a, b, c)
          fD == WFAddDirectedEdge(WFAddDirectedEdge(wfFull, a, b, c), b, a, c)
      IN  \A s \in bU.m_vertex :
            /\ BFShortestPath(bU, s, g) = BFShortestPath(bD, s, g)
            /\ DjShortestPath(dU, s, g) = DjShortestPath(dD, s, g)
            /\ WFShortestPath(wU, s, g).ret = WFShortestPath(wD, s, g).ret
            /\ WFShortestPath(fU, s, g).ret = WFShortestPath(fD, s, g).ret

\* C3: with non-negative costs and ids exactly 0..n-1, BellmanFord and
\* Dijkstra return for every t the minimum total cost of a directed path
\* from s to t, and kInf when there is none.
C3_MinimumPathCost ==
  (pc = "ret" /\ q.solver \in {"bf", "dj"} /\ q.from \in Inserted /\ NonNegative
     /\ Dense(Inserted)) =>
    \A t \in Inserted : VecAt(ret, t, kInf) = TrueDist(q.from, t)

\* C4: a WarshalFloyd built too small for the ids it receives returns the
\* same shortestPath(s)[t], for all inserted s and t, as one built large
\* enough that received the same insertions.
C4_GrownEqualsFullSize ==
  (pc = "ret" /\ q.solver = "wf" /\ q.from \in Inserted /\ solves = 1 /\ MustGrow) =>
    \A t \in Inserted :
      /\ t \in DOMAIN ret
      /\ t \in DOMAIN retFull
      /\ ret[t] = retFull[t]

\* C5: after every insertion returns, the capacity of Dijkstra (size of
\* m_graph) and of WarshalFloyd (m_nVertex) exceeds every inserted id, and
\* every inserted edge is still stored at its own (from, to) position.
C5_CapacityCoversIds ==
  (pc = "idle" /\ calls /= <<>>) =>
    /\ \A v \in Inserted : v < Cardinality(DOMAIN dj.m_graph)
    /\ \A e \in Requested :
         \E i \in 1..Len(dj.m_graph[e.from]) : dj.m_graph[e.from][i] = e
    /\ \A w \in {wf, wfFull} :
         /\ \A v \in Inserted : v < w.m_nVertex
         /\ solves = 0 =>
              \A e \in Requested :
                w.m_graph[e.from * w.m_nVertex + e.to] = LastCost(e.from, e.to)

\* C6: when no negative-cost cycle is reachable from the source, the
\* relaxation loop of BellmanFord ends at a fixpoint after at most |V|
\* full passes, at most |V| - 1 of which change a distance.
C6_BFTerminatesWithinV ==
  (q.solver = "bf" /\ q.from \in Inserted /\ ~NegCycleReachable(q.from)) =>
    /\ pc = "bf" => passes <= Cardinality(Inserted) - 1
    /\ pc = "ret" => passes <= Cardinality(Inserted)

\* C7: when a negative-cost cycle is reachable from the source,
\* BellmanFord's shortestPath reports NonConvergence instead of going on
\* relaxing: no call runs more than |V| passes without having reported it.
C7_NonConvergenceReported ==
  (q.solver = "bf" /\ q.from \in Inserted /\ InRange(bf.m_vertex, q.from)
     /\ NegCycleReachable(q.from)
     /\ passes > Cardinality(Inserted)) =>
    pc = "NonConvergence"

\* the three answers shortestPath(a, c), shortestPath(a, b) and
\* shortestPath(b, c) of one WarshalFloyd asked in that order, each solve
\* working on the matrix the previous one left
WFThree(w, a, b, c, g) ==
  LET r1 == WFShortestPath(w, a, g)
      r2 == WFShortestPath(r1.w, a, g)
      r3 == WFShortestPath(r2.w, b, g)
  IN  [ac |-> r1.ret, ab |-> r2.ret, bc |-> r3.ret]

\* ShortestPathSolver::shortestPath(from, to) has an answer: the vector
\* returned for from has a position to
HasAnswer(vec, to) == to \in DOMAIN vec

\* ac[c] <= ab[b] + bc[c], all three positions being there
Triangle(ac, ab, bc, b, c) ==
  /\ HasAnswer(ac, c) /\ HasAnswer(ab, b) /\ HasAnswer(bc, c)
  /\ ac[c] <= ab[b] + bc[c]

\* C11: with non-negative costs and ids exactly 0..n-1, for all a, b, c
\* with b reachable from a and c reachable from b, each of BellmanFord,
\* Dijkstra and WarshalFloyd answers
\* shortestPath(a, c) <= shortestPath(a, b) + shortestPath(b, c).
C11_TriangleInequality ==
  (pc = "idle" /\ calls /= <<>> /\ NonNegative /\ Dense(Inserted)) =>
    \A a \in Inserted, b \in Inserted, c \in Inserted :
      (TrueDist(a, b) /= kInf /\ TrueDist(b, c) /= kInf) =>
        LET bA == BFShortestPath(bf, a, kInf).ret
            bB == BFShortestPath(bf, b, kInf).ret
            dA == DjShortestPath(dj, a, kInf).ret
            dB == DjShortestPath(dj, b, kInf).ret
            wT == WFThree(wf, a, b, c, kInf)
            fT == WFThree(wfFull, a, b, c, kInf)
        IN  /\ Triangle(bA, bA, bB, b, c)
            /\ Triangle(dA, dA, dB, b, c)
            /\ Triangle(wT.ac, wT.ab, wT.bc, b, c)
            /\ Triangle(fT.ac, fT.ab, fT.bc, b, c)

\* the largest id that was an endpoint of an inserted edge
MaxInserted == CHOOSE v \in Inserted : \A u \in Inserted : u <= v

\* C12: in BellmanFord and Dijkstra the tracked vertex set is exactly the
\* set of distinct ids that were an endpoint of an inserted edge, and a
\* returned shortestPath(from) has as many entries as that set has members
\* (positions 0..size-1), whatever the largest id is.
C12_DistinctIdsSizeResult ==
  /\ bf.m_vertex = Inserted
  /\ dj.m_vertex = Inserted
  /\ (pc = "ret" /\ q.solver \in {"bf", "dj"}) =>
       DOMAIN ret = 0..(Cardinality(Inserted) - 1)

\* BellmanFord returned for ids that are not 0..n-1: fewer entries than
\* the largest id + 1
C12_Witness ==
  /\ pc = "ret" /\ q.solver = "bf"
  /\ Cardinality(Inserted) = 2
  /\ Cardinality(DOMAIN ret) = 2
  /\ MaxInserted + 1 = 3

\* the endpoints of the edges of E
EndpointsOf(E) == {e.from : e \in E} \cup {e.to : e \in E}

\* the minimum total cost over all directed paths from s to t in the graph
\* with edges E, kInf when there is none
DistIn(E, s, t) ==
  WalkMin(E, EndpointsOf(E), s, Cardinality(EndpointsOf(E)) - 1)[t]

\* one insertion applied to a WarshalFloyd
WFApply(w, c) ==
  IF c.op = "addEdge"
  THEN WFAddEdge(w, c.from, c.to, c.cost)
  ELSE WFAddDirectedEdge(w, c.from, c.to, c.cost)

\* the insertions a caller can make with a non-negative cost
NonNegCalls ==
  [op : {"addDirectedEdge", "addEdge"}, from : Ids, to : Ids, cost : {c \in Costs : c >= 0}]

\* C13: WarshalFloyd, after the insertions E1, a shortestPath, one more
\* insertion E2 and shortestPath(s), returns for every t the true
\* shortest distance from s to t in the graph of E1 and E2 (non-negative
\* costs, every id below the capacity).
C13_InsertSolveInsertSolve ==
  (pc = "idle" /\ calls /= <<>> /\ NonNegative) =>
    \A w \in {wf, wfFull}, c2 \in NonNegCalls, s1 \in Inserted :
      LET E  == Requested \cup {DirectedOf(c2)[i] : i \in 1..Len(DirectedOf(c2))}
          w1 == WFShortestPath(w, s1, kInf).w
          w2 == WFApply(w1, c2)
      IN  (\A v \in EndpointsOf(E) : v < w.m_nVertex) =>
            \A s \in EndpointsOf(E), t \in EndpointsOf(E) :
              WFShortestPath(w2, s, kInf).ret[t] = DistIn(E, s, t)

\* no cycle of negative total cost among the inserted edges
NoNegativeCycle == \A s \in Inserted : ~NegCycleReachable(s)

\* a second shortestPath(s), right after a first shortestPath(s1),
\* returns the row the first solve gave for s and changes no matrix entry
SolveTwiceSame(w, s1, s, g) ==
  LET r1 == WFShortestPath(w, s1, g)
      r2 == WFShortestPath(r1.w, s, g)
  IN  /\ r2.w.m_graph = r1.w.m_graph
      /\ r2.ret = WFShortestPath(w, s, g).ret

\* C14: for a graph without negative-cost cycles, a second
\* WarshalFloyd::shortestPath with no insertion in between returns for
\* every source the same row as the first and leaves the matrix unchanged.
C14_SolveIdempotent ==
  (pc = "idle" /\ calls /= <<>> /\ NoNegativeCycle) =>
    \A w \in {wf, wfFull}, s1 \in Inserted, s \in Inserted, g \in Garbage :
      SolveTwiceSame(w, s1, s, g)

\* the list s is the beginning of the list t
IsPrefix(s, t) == Len(s) <= Len(t) /\ SubSeq(t, 1, Len(s)) = s

\* every edge asked for so far still takes part in the solves of w with a
\* cost no larger than its own
WFKeepsEveryEdge(w) ==
  \A e \in Requested : w.m_graph[e.from * w.m_nVertex + e.to] <= e.cost

\* C15: no addEdge/addDirectedEdge removes an edge inserted before or
\* changes the cost under which it takes part in later solves, in any of
\* BellmanFord, Dijkstra and WarshalFloyd; a second edge between the same
\* ordered pair does not replace the first.
C15_EdgesAppendOnly ==
  [][/\ IsPrefix(bf.m_graph, bf'.m_graph)
     /\ \A i \in DOMAIN dj.m_graph :
          i \in DOMAIN dj'.m_graph /\ IsPrefix(dj.m_graph[i], dj'.m_graph[i])
     /\ \A w \in {wf', wfFull'} :
          (\A v \in Inserted' : v < w.m_nVertex) => WFKeepsEveryEdge(w)']_vars

\* some inserted edge has a negative cost
HasNegativeEdge == \E e \in Requested : e.cost < 0

\* C16: on a graph with negative-cost edges but no negative-cost cycle,
\* ids exactly 0..n-1 and n the WarshalFloyd capacity, BellmanFord and
\* WarshalFloyd return for every (s, t) the minimum path cost when t is
\* reachable from s and exactly kInf (0x3f3f3f3f) when it is not.
C16_NegativeEdgesHandled ==
  (pc = "ret" /\ q.from \in Inserted /\ HasNegativeEdge /\ NoNegativeCycle
     /\ Dense(Inserted)) =>
    \A t \in Inserted :
      /\ q.solver = "bf" => ret[t] = TrueDist(q.from, t)
      /\ (q.solver = "wf" /\ Cardinality(Inserted) = wf.m_nVertex) =>
           ret[t] = TrueDist(q.from, t)
      /\ (q.solver = "wf" /\ Cardinality(Inserted) = wfFull.m_nVertex) =>
           retFull[t] = TrueDist(q.from, t)

\* C17: a shortestPath(from) asked before any edge was inserted reports
\* EmptyGraph, and one asked (alone or as the first step of
\* shortestPath(from, to)) with an id that is not a tracked vertex reports
\* InvalidVertex; neither returns distances nor touches storage outside
\* its bounds.
C17_UnresolvableQueryReported ==
  (q.solver /= "none" /\ q.from \notin Inserted) =>
    IF Inserted = {} THEN pc = "EmptyGraph" ELSE pc = "InvalidVertex"

\* ------------------------------------------------------------------------
\* Claims about the spanning-tree solvers
\* ------------------------------------------------------------------------
\* the members of a list, as a set
Members(es) == {es[i] : i \in 1..Len(es)}

\* the edges given to the solvers, read as undirected edges
GivenEdges == Members(Pool(kruskal, 0))

\* the vertices the solvers were constructed for
STVertices == DOMAIN kruskal

\* the vertices joined to a vertex of S by at most k edges of E, taken in
\* either direction
RECURSIVE Joined(_, _, _)
Joined(E, S, k) ==
  IF k = 0
  THEN S
  ELSE Joined(E, S \cup {e.to : e \in {x \in E : x.from \in S}}
                   \cup {e.from : e \in {x \in E : x.to \in S}}, k - 1)

\* the connected component of v in the undirected graph of E
Component(E, v) == Joined(E, {v}, Cardinality(STVertices))

\* the total cost of a set of edges
RECURSIVE CostOf(_)
CostOf(T) ==
  IF T = {} THEN 0 ELSE LET e == CHOOSE x \in T : TRUE IN e.cost + CostOf(T \ {e})

\* T is a spanning tree of the vertex set V
IsSpanningTree(T, V) ==
  /\ \A e \in T : e.from \in V /\ e.to \in V
  /\ Cardinality(T) = Cardinality(V) - 1
  /\ \A v \in V : Joined(T, {v}, Cardinality(V)) = V

\* the least total cost of a spanning tree of V made of edges of E
MSTWeight(E, V) ==
  SetMin({CostOf(T) : T \in {X \in SUBSET E : IsSpanningTree(X, V)}})

\* the given graph is connected
STConnected == Component(GivenEdges, 0) = STVertices

BothSolved == st_ret.prim.done /\ st_ret.kruskal.done

\* C18: on a connected undirected graph, each edge given once to both
\* solvers through addEdge(from, to, cost), Prim's and Kruskal's solve()
\* return the same total cost, the least total cost of a spanning tree.
C18_PrimKruskalSameMSTWeight ==
  (BothSolved /\ STConnected) =>
    /\ st_ret.prim.total = st_ret.kruskal.total
    /\ st_ret.kruskal.total = MSTWeight(GivenEdges, STVertices)

\* the sum of the least spanning-tree costs of the connected components
RECURSIVE ForestWeight(_, _)
ForestWeight(E, V) ==
  IF V = {}
  THEN 0
  ELSE LET v == CHOOSE x \in V : TRUE
           C == Component(E, v)
       IN  MSTWeight({e \in E : e.from \in C /\ e.to \in C}, C) + ForestWeight(E, V \ C)

\* C19: on a disconnected graph, Prim's solve() returns the total cost and
\* the edges of a spanning tree of exactly the vertices reachable from the
\* root 0, nothing from other components; Kruskal's solve() returns a
\* spanning forest, one tree per connected component, its total the sum
\* over all components.
C19_DisconnectedTreeAndForest ==
  (BothSolved /\ ~STConnected) =>
    /\ IsSpanningTree(Members(st_ret.prim.edges), Component(GivenEdges, 0))
    /\ st_ret.prim.total = CostOf(Members(st_ret.prim.edges))
    /\ \A v \in STVertices :
         LET C == Component(GivenEdges, v)
         IN  IsSpanningTree({e \in Members(st_ret.kruskal.edges) : e.from \in C}, C)
    /\ st_ret.kruskal.total = CostOf(Members(st_ret.kruskal.edges))
    /\ st_ret.kruskal.total = ForestWeight(GivenEdges, STVertices)

\* the side of the square matrix w holds at present
Side(w) == CHOOSE s \in 0..(MaxId + 1) : s * s = Cardinality(DOMAIN w.m_graph)

\* the matrix of side m2 the growth step is to leave, with the new cost
\* then written at (from, to): old entries off the diagonal kept, new rows
\* and columns kInf, the whole diagonal 0
GrownWithEdge(w, from, to, cost) ==
  LET m  == Side(w)
      m2 == Max(from, to) + 1
  IN  [idx \in 0..(m2 * m2 - 1) |->
         LET i == idx \div m2
             j == idx % m2
         IN  IF i = from /\ j = to THEN cost
             ELSE IF i = j THEN 0
             ELSE IF i < m /\ j < m THEN w.m_graph[i * m + j]
             ELSE kInf]

\* C24: when WarshalFloyd's addDirectedEdge(from, to, cost) sees
\* max(from, to) >= the current size m, the matrix becomes a square matrix
\* of side max(from, to) + 1 that keeps the old entry (i, j) for i, j < m,
\* i /= j, has kInf at every other off-diagonal entry and 0 on the whole
\* diagonal, and the new cost is then written at (from, to).
C24_GrowthStep ==
  (pc = "idle") =>
    \A from \in Ids, to \in Ids, cost \in Costs :
      Max(from, to) >= Side(wf) =>
        WFAddDirectedEdge(wf, from, to, cost).m_graph = GrownWithEdge(wf, from, to, cost)

\* the while loop of Dijkstra::shortestPath_ as DjLoop runs it, keeping
\* for every iteration the pair popped, whether it was discarded as stale,
\* and the distances and the queue length the iteration left
RECURSIVE DjTrace(_, _, _, _, _)
DjTrace(graph, d, pQueue, pops, log) ==
  IF Len(pQueue) = 0 \/ pops >= MaxPops
  THEN log
  ELSE LET t    == TopIndex(pQueue)
           p    == pQueue[t]
           rest == RemoveAt(pQueue, t)
           v    == p.second
       IN  IF d[v] < p.first
           THEN DjTrace(graph, d, rest, pops + 1,
                        Append(log, [first |-> p.first, second |-> v, stale |-> TRUE,
                                     before |-> d, dists |-> d,
                                     pushed |-> Len(rest) + 1 - Len(pQueue)]))
           ELSE LET r == DjRelax(AdjAt(graph, v), 1, v, d, rest)
                IN  DjTrace(graph, r.dists, r.pQueue, pops + 1,
                            Append(log, [first |-> p.first, second |-> v, stale |-> FALSE,
                                         before |-> d, dists |-> r.dists,
                                         pushed |-> Len(r.pQueue) + 1 - Len(pQueue)]))

\* the iterations of shortestPath_(from) on the Dijkstra d
DjIterations(d, from, g) ==
  DjTrace(d.m_graph, [NewDists(Cardinality(d.m_vertex), g) EXCEPT ![from] = 0],
          <<[first |-> 0, second |-> from]>>, 0, <<>>)

\* the call settled each vertex once
SettlesOnce(log) ==
  \A k \in 1..Len(log) :
    IF log[k].stale
    THEN log[k].dists = log[k].before /\ log[k].pushed = 0
    ELSE /\ log[k].first = log[Len(log)].dists[log[k].second]
         /\ \A l \in k..Len(log) : log[l].dists[log[k].second] = log[k].first
         /\ \A l \in 1..Len(log) :
              (l /= k /\ log[l].second = log[k].second) => log[l].stale

\* the edges Dijkstra relaxes: the entries of m_graph[v] lead from v to
\* their to
StoredEdges(graph) ==
  UNION {{Edge(v, graph[v][i].to, graph[v][i].cost) : i \in 1..Len(graph[v])} :
           v \in DOMAIN graph}

\* every entry that was not discarded carries the least cost of a path
\* from the source over the stored edges
SettlesAtShortest(graph, from, log) ==
  LET V == DOMAIN graph
      w == WalkMin(StoredEdges(graph), V, from, Cardinality(V) - 1)
  IN  \A k \in 1..Len(log) : ~log[k].stale => log[k].first = w[log[k].second]

\* C25: with non-negative costs, whenever Dijkstra pops an entry (d, v)
\* and does not discard it as stale, d is the final distance of v, the
\* recorded distance of v never changes afterwards and the edges of v are
\* relaxed at most once in the call; an entry popped with d above the
\* recorded distance of v relaxes no edge.
C25_SettlesEachVertexOnce ==
  (pc = "ret" /\ q.solver = "dj" /\ NonNegative) =>
    \A g \in (IF InRange(dj.m_vertex, q.from) THEN {kInf} ELSE Garbage) :
      LET log == DjIterations(dj, q.from, g)
      IN  AsVector(log[Len(log)].dists, Cardinality(dj.m_vertex)) = ret
            => /\ SettlesOnce(log)
               /\ InRange(dj.m_vertex, q.from)
                    => SettlesAtShortest(dj.m_graph, q.from, log)

\* a call that has returned after settling a vertex other than the source
\* and discarding a stale entry
C25_Witness ==
  /\ pc = "ret" /\ q.solver = "dj" /\ NonNegative
  /\ InRange(dj.m_vertex, q.from)
  /\ LET log == DjIterations(dj, q.from, kInf)
     IN  /\ \E k \in 1..Len(log) : log[k].stale
         /\ \E k \in 1..Len(log) : ~log[k].stale /\ log[k].second /= q.from

\* the indices BellmanFord::shortestPath_(from) uses on dists
BFIndices(b, from) ==
  {from} \cup {b.m_graph[i].from : i \in 1..Len(b.m_graph)}
         \cup {b.m_graph[i].to : i \in 1..Len(b.m_graph)}

\* the indices Dijkstra::shortestPath_(from) uses on dists: from, every
\* vertex popped and the to of every edge relaxed
DjIndices(d, from) ==
  {from} \cup {e.from : e \in StoredEdges(d.m_graph)}
         \cup {e.to : e \in StoredEdges(d.m_graph)}

\* C27: for BellmanFord and Dijkstra, after every sequence of insertions
\* and for every inserted source from, each index shortestPath uses on
\* the distance vector is below the vector's length, and
\* shortestPath(from, to) reads a position inside the returned vector for
\* every inserted to.
C27_DistsIndexSafety ==
  (pc = "idle") =>
    \A from \in Inserted :
      /\ \A i \in BFIndices(bf, from) : i < Cardinality(bf.m_vertex)
      /\ \A i \in DjIndices(dj, from) : i < Cardinality(dj.m_vertex)
      /\ \A to \in Inserted :
           to < Cardinality(bf.m_vertex) /\ to < Cardinality(dj.m_vertex)

\* every insertion so far was an addDirectedEdge
OnlyDirected == \A i \in 1..Len(calls) : calls[i].op = "addDirectedEdge"

\* C28: on a graph built with addDirectedEdge that has a negative-cost
\* edge, Dijkstra's shortestPath terminates with the distances
\* BellmanFord returns when no negative-cost cycle can be reached from
\* the source, and its queue never empties when one can.
C28_DijkstraWithNegativeEdges ==
  (q.solver = "dj" /\ q.from \in Inserted /\ OnlyDirected /\ HasNegativeEdge) =>
    IF NegCycleReachable(q.from)
    THEN pc /= "ret"
    ELSE /\ pc /= "spin"
         /\ pc = "ret" =>
              \A g \in (IF InRange(bf.m_vertex, q.from) THEN {kInf} ELSE Garbage) :
                /\ BFShortestPath(bf, q.from, g).done
                /\ ret = BFShortestPath(bf, q.from, g).ret

\* the operands <<dists[e.from], e.cost>> of the sums one pass of
\* BellmanFord's inner loop computes, from edge i on
RECURSIVE BFSums(_, _, _)
BFSums(graph, i, d) ==
  IF i > Len(graph)
  THEN {}
  ELSE LET e == graph[i]
       IN  IF d[e.from] /= kInf
           THEN {<<d[e.from], e.cost>>} \cup
                BFSums(graph, i + 1,
                       IF d[e.to] > d[e.from] + e.cost
                       THEN [d EXCEPT ![e.to] = d[e.from] + e.cost] ELSE d)
           ELSE BFSums(graph, i + 1, d)

\* the operands <<dists[v], e.cost>> of the sums the iterations of a
\* Dijkstra call compute, and the distances they leave in the cells the
\* call uses
DjSums(d, log) ==
  UNION {IF log[k].stale THEN {}
         ELSE {<<DjRelax(SubSeq(AdjAt(d.m_graph, log[k].second), 1, i - 1), 1,
                         log[k].second, log[k].before, <<>>).dists[log[k].second],
                 AdjAt(d.m_graph, log[k].second)[i].cost>> :
               i \in 1..Len(AdjAt(d.m_graph, log[k].second))} :
         k \in 1..Len(log)}

DjCells(d, from, log) ==
  {log[k].dists[i] : k \in 1..Len(log), i \in DjIndices(d, from)}

\* a + b lies in the signed 32-bit range; the range of a distance
InInt(a, b) ==
  IF b >= 0 THEN a <= 2147483647 - b ELSE a >= (-2147483647 - 1) - b
InSentinelRange(x) == 0 <= x /\ x <= kInf

\* C29: with every inserted cost in [0, 0x3f3f3f3f], every matrix entry
\* of WarshalFloyd and every distance of BellmanFord and Dijkstra is
\* within [0, 0x3f3f3f3f] in every reachable state, and every sum a
\* relaxation computes (infinity + infinity in WarshalFloyd included) is
\* below 2^31.
C29_SentinelArithmeticInRange ==
  NonNegative =>
    /\ \A w \in {wf, wfFull} : \A a \in DOMAIN w.m_graph, b \in DOMAIN w.m_graph :
         InSentinelRange(w.m_graph[a]) /\ InInt(w.m_graph[a], w.m_graph[b])
    /\ (pc = "bf" /\ q.from \in Inserted) =>
         /\ \A i \in BFIndices(bf, q.from) : InSentinelRange(dists[i])
         /\ \A s \in BFSums(bf.m_graph, 1, dists) : InInt(s[1], s[2])
    /\ (pc = "ret" /\ q.from \in Inserted) =>
         \A i \in DOMAIN ret : InSentinelRange(ret[i])
    /\ (pc = "ret" /\ q.solver = "dj" /\ q.from \in Inserted) =>
         \A g \in (IF InRange(dj.m_vertex, q.from) THEN {kInf} ELSE Garbage) :
           LET log == DjIterations(dj, q.from, g)
           IN  AsVector(log[Len(log)].dists, Cardinality(dj.m_vertex)) = ret
                 => /\ \A x \in DjCells(dj, q.from, log) : InSentinelRange(x)
                    /\ \A s \in DjSums(dj, log) : InInt(s[1], s[2])

\* ------------------------------------------------------------------------
\* Claims about UnionFind
\* ------------------------------------------------------------------------
\* what isSame(x, y) answers in the array par
Same(par, x, y) == IsSame(par, x, y, TRUE).ret

\* number of parent links between x and its root
RECURSIVE Depth(_, _)
Depth(par, x) == IF par[x] = x THEN 0 ELSE 1 + Depth(par, par[x])

\* C8: after unite(x, y) returns, isSame(x, y) is true, and no later find,
\* unite or isSame call separates two elements that isSame reports as
\* being in the same group.
C8_UnitedStaySame ==
  [][ /\ (uf_last'.op = "unite" => Same(m_par', uf_last'.x, uf_last'.y))
      /\ \A x \in Nodes(m_par), y \in Nodes(m_par) :
           Same(m_par, x, y) => Same(m_par', x, y) ]_vars

\* a unite joined two different elements and another call has acted since
C8_Witness ==
  /\ uf_last.op \in {"find", "isSame"}
  /\ \E x \in Nodes(m_par), y \in Nodes(m_par) :
       x /= y /\ uf_group[x] = uf_group[y] /\ Depth(m_par, y) >= 1

\* C9: a new UnionFind has every element as its own root with rank 0, and
\* in every reachable state isSame(x, y) holds exactly when x and y are
\* related by the equivalence closure of the united pairs.
C9_ExactConnectivity ==
  /\ uf_last.op = "new" =>
       \A x \in Nodes(m_par) : m_par[x] = x /\ m_rank[x] = 0
  /\ \A x \in Nodes(m_par), y \in Nodes(m_par) :
       Same(m_par, x, y) <=> (uf_group[x] = uf_group[y])

\* some elements were united while others remain apart
C9_Witness ==
  /\ uf_last.op = "unite"
  /\ \E x \in Nodes(m_par), y \in Nodes(m_par), z \in Nodes(m_par) :
       /\ x /= y /\ uf_group[x] = uf_group[y] /\ Same(m_par, x, y)
       /\ uf_group[x] /= uf_group[z] /\ ~Same(m_par, x, z)

\* C10: find(x) followed by find(x) returns the same root r both times, r
\* is its own parent, find(r) = r, and the compression done by the first
\* call changes the answer of no later find or isSame.
C10_FindIdempotent ==
  \A x \in Nodes(m_par) :
    LET f1 == Find(m_par, x)
        f2 == Find(f1.par, x)
    IN  /\ f2.ret = f1.ret
        /\ f1.par[f1.ret] = f1.ret
        /\ Find(f1.par, f1.ret).ret = f1.ret
        /\ \A z \in Nodes(m_par) : Find(f1.par, z).ret = Find(m_par, z).ret
        /\ \A y \in Nodes(m_par), z \in Nodes(m_par) :
             Same(f1.par, y, z) = Same(m_par, y, z)

\* some element is two links away from its root, so find compresses a path
C10_Witness ==
  \E x \in Nodes(m_par) :
    Depth(m_par, x) >= 2 /\ Find(m_par, x).par /= m_par

\* C20: unite(x, y) on two different groups with roots rx = find(x) and
\* ry = find(y) attaches rx under ry if rank[rx] < rank[ry] and ry under rx
\* otherwise; a rank changes only when the two ranks were equal, and then
\* only the surviving root's rank grows, by exactly 1; no other rank
\* changes.
C20_UnionByRank ==
  [][uf_last'.op = "unite" =>
       LET rx == Find(m_par, uf_last'.x).ret
           ry == Find(m_par, uf_last'.y).ret
       IN  IF rx = ry
           THEN m_rank' = m_rank
           ELSE /\ IF m_rank[rx] < m_rank[ry]
                   THEN m_par'[rx] = ry /\ m_par'[ry] = ry
                   ELSE m_par'[ry] = rx /\ m_par'[rx] = rx
                /\ IF m_rank[rx] = m_rank[ry]
                   THEN m_rank' = [m_rank EXCEPT ![rx] = m_rank[rx] + 1]
                   ELSE m_rank' = m_rank]_vars

\* the last call united x, a root of rank 0 on its own, with a group whose
\* root has rank 1: x now hangs under that root and no rank has grown
C20_Witness ==
  /\ uf_last.op = "unite"
  /\ LET x == uf_last.x
         r == m_par[x]
     IN  /\ r /= x
         /\ m_par[r] = r
         /\ m_rank[x] = 0
         /\ m_rank[r] = 1
         /\ \A z \in Nodes(m_par) : m_par[z] /= x
         /\ Cardinality({z \in Nodes(m_par) : uf_group[z] = uf_group[r]}) = 3
         /\ uf_group[uf_last.y] = uf_group[r]

\* the root of x: the end of the parent links from x
RECURSIVE Root(_, _)
Root(par, x) == IF par[x] = x THEN x ELSE Root(par, par[x])

\* C21: unite(x, y) on two elements of the same group is a no-op: the
\* partition into groups, the root of every group and every rank are the
\* same after the call as before it.
C21_UniteSameGroupNoOp ==
  [][(uf_last'.op = "unite" /\ Root(m_par, uf_last'.x) = Root(m_par, uf_last'.y)) =>
       /\ m_rank' = m_rank
       /\ \A z \in Nodes(m_par) : Root(m_par', z) = Root(m_par, z)
       /\ \A z \in Nodes(m_par), w \in Nodes(m_par) :
            Same(m_par', z, w) = Same(m_par, z, w)]_vars

\* unite(x, y) was called on two different elements of a group of two in
\* which y was already the root and x its child: a merging unite(x, y)
\* would have left x as the root
C21_Witness ==
  /\ uf_last.op = "unite"
  /\ uf_last.x /= uf_last.y
  /\ m_par[uf_last.x] = uf_last.y
  /\ m_par[uf_last.y] = uf_last.y
  /\ {z \in Nodes(m_par) : Root(m_par, z) = uf_last.y} = {uf_last.x, uf_last.y}

\* the parent links from x end at a self-parent element within k steps
RECURSIVE EndsWithin(_, _, _)
EndsWithin(par, x, k) ==
  IF par[x] = x THEN TRUE
  ELSE IF k = 0 THEN FALSE
  ELSE EndsWithin(par, par[x], k - 1)

\* the height of the tree below the root r: the longest chain of parent
\* links that ends at r
Height(par, r) ==
  LET below == {z \in Nodes(par) : EndsWithin(par, z, Cardinality(Nodes(par))) /\ Root(par, z) = r}
  IN  CHOOSE h \in 0..Cardinality(Nodes(par)) :
        /\ \A z \in below : Depth(par, z) <= h
        /\ \E z \in below : Depth(par, z) = h

\* every non-root has a rank below its parent's, and no tree is higher
\* than the rank of its root
RankOrdered ==
  /\ \A x \in Nodes(m_par) : m_par[x] /= x => m_rank[x] < m_rank[m_par[x]]
  /\ \A x \in Nodes(m_par) : EndsWithin(m_par, x, Cardinality(Nodes(m_par)))
  /\ \A r \in Nodes(m_par) : m_par[r] = r => Height(m_par, r) <= m_rank[r]

\* C22: in every reachable state of UnionFind every non-root x has
\* rank[x] < rank[parent[x]] (parent links are acyclic and end at a
\* self-parent root) and the tree below a root r is at most rank[r] high;
\* and no operation ever lowers the rank of an element.
C22_RankInvariant ==
  /\ []RankOrdered
  /\ [][\A x \in Nodes(m_par) : m_rank'[x] >= m_rank[x]]_vars

\* a tree of height 2 under a root of rank 2
C22_Witness ==
  \E x \in Nodes(m_par) :
    /\ Depth(m_par, x) = 2
    /\ m_rank[Root(m_par, x)] = 2
    /\ m_rank[m_par[x]] = 1
    /\ m_rank[x] = 0

\* the elements on the parent path from x to its root, both included
RECURSIVE Path(_, _)
Path(par, x) == IF par[x] = x THEN {x} ELSE {x} \cup Path(par, par[x])

\* par with every element on the paths from the elements of S re-parented
\* to its root, everything else as it was
Compressed(par, S) ==
  [z \in Nodes(par) |->
     IF \E x \in S : z \in Path(par, x) THEN Root(par, z) ELSE par[z]]

\* C23: find(x) returns the root r of x's group; afterwards every element
\* that was on the parent path from x to r has r as its parent, and the
\* parent of every other element, every rank and the partition into groups
\* are unchanged; the same holds for isSame(x, y) with the two paths.
C23_PathCompressionFrame ==
  /\ [](\A x \in Nodes(m_par) :
          /\ Find(m_par, x).ret = Root(m_par, x)
          /\ Find(m_par, x).par = Compressed(m_par, {x})
          /\ \A y \in Nodes(m_par), xFirst \in BOOLEAN :
               IsSame(m_par, x, y, xFirst).par = Compressed(m_par, {x, y}))
  /\ [][uf_last'.op \in {"find", "isSame"} =>
          /\ m_rank' = m_rank
          /\ \E S \in SUBSET Nodes(m_par) :
               Cardinality(S) \in {1, 2} /\ m_par' = Compressed(m_par, S)
          /\ \A z \in Nodes(m_par), w \in Nodes(m_par) :
               Same(m_par', z, w) = Same(m_par, z, w)]_vars

\* after a find or an isSame a group of four is a root of rank 2 with the
\* three others directly under it: unite builds that tree two links high
\* and only path compression flattens it
C23_Witness ==
  /\ uf_last.op \in {"find", "isSame"}
  /\ \E r \in Nodes(m_par) :
       /\ m_par[r] = r
       /\ m_rank[r] = 2
       /\ Cardinality({z \in Nodes(m_par) : m_par[z] = r}) = 4

\* 2 to the power k
RECURSIVE Pow2(_)
Pow2(k) == IF k = 0 THEN 1 ELSE 2 * Pow2(k - 1)

\* the roots of par, one per group
Roots(par) == {r \in Nodes(par) : par[r] = r}

\* the group of the root r
GroupOf(par, r) == {z \in Nodes(par) : Root(par, z) = r}

\* C30: in every reachable state the group of a root of rank k has at
\* least 2^k elements, so every rank is at most floor(log2 n); and every
\* unite of two different groups lowers the number of groups by exactly
\* one, the root of the merged group being one of the two former roots.
C30_SizeRankBound ==
  /\ [](/\ \A r \in Roots(m_par) : Cardinality(GroupOf(m_par, r)) >= Pow2(m_rank[r])
        /\ \A x \in Nodes(m_par) : Pow2(m_rank[x]) <= Cardinality(Nodes(m_par)))
  /\ [][(uf_last'.op = "unite" /\ Root(m_par, uf_last'.x) /= Root(m_par, uf_last'.y)) =>
          /\ Cardinality(Roots(m_par')) = Cardinality(Roots(m_par)) - 1
          /\ Root(m_par', uf_last'.x) \in {Root(m_par, uf_last'.x), Root(m_par, uf_last'.y)}
          /\ Root(m_par', uf_last'.y) = Root(m_par', uf_last'.x)]_vars

\* the last call united a group whose root has rank 1 with a single
\* element: three elements under a root that keeps rank 1
C30_Witness ==
  /\ uf_last.op = "unite"
  /\ LET r == Root(m_par, uf_last.x)
     IN  /\ m_rank[r] = 1
         /\ Cardinality(GroupOf(m_par, r)) = 3
         /\ Root(m_par, uf_last.y) = r
         /\ \E z \in {uf_last.x, uf_last.y} :
              z /= r /\ m_rank[z] = 0 /\ \A w \in Nodes(m_par) : m_par[w] /= z


\* ------------------------------------------------------------------------
\* Claims about Kruskal on UnionFind
\* ------------------------------------------------------------------------
\* Kruskal's scan of the sorted edges es, step by step: the DisjointSet
\* and the edges accepted before any edge and after each of the first k
RECURSIVE KruskalRun(_, _, _)
KruskalRun(es, k, n) ==
  IF k = 0
  THEN <<[par |-> UFIota(n), rank |-> UFRankInit(n), edges |-> <<>>]>>
  ELSE LET r == KruskalRun(es, k - 1, n)
           p == r[k]
           e == es[k]
           s == IsSame(p.par, e.from, e.to, TRUE)
       IN  IF s.ret
           THEN Append(r, [p EXCEPT !.par = s.par])
           ELSE LET u == Unite(s.par, p.rank, e.from, e.to)
                IN  Append(r, [par |-> u.par, rank |-> u.rank,
                               edges |-> Append(p.edges, e)])

\* the number of connected components of the vertices under the edges E
NumComponents(E) == Cardinality({Component(E, v) : v \in STVertices})

\* C26: Kruskal scans the pooled edges in ascending order of cost and
\* accepts an edge exactly when its endpoints are in different DisjointSet
\* groups at that moment; at every step the accepted edges are acyclic and
\* two vertices are in the same group iff accepted edges connect them, and
\* the number of accepted edges is the number of vertices minus the number
\* of connected components of the given graph.
C26_KruskalAcceptsAcrossGroups ==
  st_ret.kruskal.done =>
    LET es  == SortByCost(Pool(kruskal, 0))
        n   == Cardinality(STVertices)
        run == KruskalRun(es, Len(es), n)
    IN  /\ Len(es) = Len(Pool(kruskal, 0)) /\ Members(es) = GivenEdges
        /\ \A i \in 1..(Len(es) - 1) : es[i].cost <= es[i + 1].cost
        /\ run[Len(es) + 1].edges = st_ret.kruskal.edges
        /\ \A k \in 1..Len(es) :
             IF Root(run[k].par, es[k].from) /= Root(run[k].par, es[k].to)
             THEN run[k + 1].edges = Append(run[k].edges, es[k])
             ELSE run[k + 1].edges = run[k].edges
        /\ \A k \in 1..(Len(es) + 1) :
             /\ Len(run[k].edges) = n - NumComponents(Members(run[k].edges))
             /\ \A u \in STVertices, v \in STVertices :
                  (Root(run[k].par, u) = Root(run[k].par, v))
                    <=> (v \in Component(Members(run[k].edges), u))
        /\ Len(st_ret.kruskal.edges) = n - NumComponents(GivenEdges)

\* a solve that accepted two edges and skipped one that joins two
\* different vertices of one group
C26_Witness ==
  /\ st_ret.kruskal.done
  /\ Len(st_ret.kruskal.edges) = 2
  /\ \E e \in GivenEdges : e.from /= e.to /\ e \notin Members(st_ret.kruskal.edges)

====
